---- MODULE Spec2Model ----
(***************************************************************************)
(* A model of the IP blocklist tools: the BlocklistManager of              *)
(* examples/blocklist_manager.py (load, query, sort, export) and the list  *)
(* builders of build/buildCategorizedLists.py and build/buildIPList.py.    *)
(*                                                                         *)
(* A Python str is a sequence of one-character strings.  An address is a   *)
(* record [version, groups]: four octets for IPv4, eight 16-bit groups for *)
(* IPv6, most significant first, so that numeric order is the              *)
(* lexicographic order of the groups.  A network is a record               *)
(* [version, network_address, prefixlen].                                  *)
(***************************************************************************)
EXTENDS Integers, Sequences, FiniteSets, TLC

(***************************************************************************)
(* Text                                                                    *)
(***************************************************************************)

\* The printable ASCII characters in code point order: 32 (space) to 95, and
\* 97 ("a") to 126.
AsciiLow ==
    <<" ", "!", "\"", "#", "$", "%", "&", "'", "(", ")", "*", "+", ",", "-",
      ".", "/", "0", "1", "2", "3", "4", "5", "6", "7", "8", "9", ":", ";",
      "<", "=", ">", "?", "@", "A", "B", "C", "D", "E", "F", "G", "H", "I",
      "J", "K", "L", "M", "N", "O", "P", "Q", "R", "S", "T", "U", "V", "W",
      "X", "Y", "Z", "[", "\\", "]", "^", "_">>

AsciiHigh ==
    <<"a", "b", "c", "d", "e", "f", "g", "h", "i", "j", "k", "l", "m", "n",
      "o", "p", "q", "r", "s", "t", "u", "v", "w", "x", "y", "z", "{", "|",
      "}", "~">>

\* ord(c): the code point of a character.
ord(c) ==
    IF c = "\n" THEN 10
    ELSE IF c = "\t" THEN 9
    ELSE IF c = "\r" THEN 13
    ELSE IF \E i \in 1..Len(AsciiLow) : AsciiLow[i] = c
         THEN 31 + (CHOOSE i \in 1..Len(AsciiLow) : AsciiLow[i] = c)
    ELSE 96 + (CHOOSE i \in 1..Len(AsciiHigh) : AsciiHigh[i] = c)

\* The characters str.strip() removes.
Whitespace == {" ", "\t", "\n", "\r"}

DecDigits == {"0", "1", "2", "3", "4", "5", "6", "7", "8", "9"}

HexDigits == DecDigits \cup {"a", "b", "c", "d", "e", "f", "A", "B", "C", "D", "E", "F"}

HexLower == <<"0", "1", "2", "3", "4", "5", "6", "7", "8", "9", "a", "b", "c", "d", "e", "f">>

\* The value of one hexadecimal (hence also decimal) digit.
DigitVal(c) ==
    IF c \in DecDigits THEN ord(c) - 48
    ELSE IF ord(c) >= 97 THEN ord(c) - 87
    ELSE ord(c) - 55

\* s.strip()
RECURSIVE strip(_)
strip(s) ==
    IF s = <<>> THEN s
    ELSE IF Head(s) \in Whitespace THEN strip(Tail(s))
    ELSE IF s[Len(s)] \in Whitespace THEN strip(SubSeq(s, 1, Len(s) - 1))
    ELSE s

\* s.startswith(c) for a one-character prefix c
startswith(s, c) == Len(s) >= 1 /\ s[1] = c

\* s.split(sep) for a one-character separator: never empty, pieces may be.
RECURSIVE split(_, _)
split(s, sep) ==
    IF \A i \in 1..Len(s) : s[i] # sep THEN <<s>>
    ELSE LET k == CHOOSE i \in 1..Len(s) :
                      s[i] = sep /\ \A j \in 1..(i - 1) : s[j] # sep
         IN  <<SubSeq(s, 1, k - 1)>> \o split(SubSeq(s, k + 1, Len(s)), sep)

\* sep.join(parts)
RECURSIVE join(_, _)
join(parts, sep) ==
    IF parts = <<>> THEN <<>>
    ELSE IF Len(parts) = 1 THEN parts[1]
    ELSE parts[1] \o <<sep>> \o join(Tail(parts), sep)

\* int(s, base) for a string of digits of that base
RECURSIVE int(_, _)
int(s, base) ==
    IF s = <<>> THEN 0
    ELSE base * int(SubSeq(s, 1, Len(s) - 1), base) + DigitVal(s[Len(s)])

\* str(n) and '%x' % n for a natural number n
RECURSIVE format(_, _)
format(n, base) ==
    IF n < base THEN <<HexLower[n + 1]>>
    ELSE format(n \div base, base) \o <<HexLower[(n % base) + 1]>>

\* a < b on str: lexicographic by code point, a proper prefix first.
RECURSIVE StrLt(_, _)
StrLt(a, b) ==
    IF b = <<>> THEN FALSE
    ELSE IF a = <<>> THEN TRUE
    ELSE IF Head(a) # Head(b) THEN ord(Head(a)) < ord(Head(b))
    ELSE StrLt(Tail(a), Tail(b))

(***************************************************************************)
(* The ipaddress module, as the tools use it.  Netmask notation            *)
(* ("10.0.0.0/255.0.0.0"), scope ids and an IPv4 tail in an IPv6 address   *)
(* are not modelled; none of the inputs below uses them.                   *)
(***************************************************************************)

\* What a raise ValueError (AddressValueError, NetmaskValueError) yields.
ValueError == [exc |-> "ValueError"]

\* Bits per group and number of groups of an address of a version.
GroupBits(version) == IF version = 4 THEN 8 ELSE 16

GroupCount(version) == IF version = 4 THEN 4 ELSE 8

max_prefixlen(version) == GroupBits(version) * GroupCount(version)

RECURSIVE Pow2(_)
Pow2(n) == IF n = 0 THEN 1 ELSE 2 * Pow2(n - 1)

\* The number of leading bits of group i (from 1) a prefix of prefixlen keeps.
KeptBits(version, prefixlen, i) ==
    LET w == GroupBits(version)
        k == prefixlen - (i - 1) * w
    IN  IF k < 0 THEN 0 ELSE IF k > w THEN w ELSE k

\* address & netmask, for the netmask of prefixlen
MaskGroups(version, groups, prefixlen) ==
    [i \in 1..Len(groups) |->
        LET low == Pow2(GroupBits(version) - KeptBits(version, prefixlen, i))
        IN  groups[i] - (groups[i] % low)]

\* The netmask of prefixlen, as groups.
netmask(version, prefixlen) ==
    MaskGroups(version, [i \in 1..GroupCount(version) |-> Pow2(GroupBits(version)) - 1],
               prefixlen)

\* a < b on the integers the groups spell
RECURSIVE GroupsLt(_, _)
GroupsLt(a, b) ==
    IF a = <<>> \/ b = <<>> THEN FALSE
    ELSE IF Head(a) # Head(b) THEN Head(a) < Head(b)
    ELSE GroupsLt(Tail(a), Tail(b))

\* IPv4Address._parse_octet: -1 stands for the ValueError.
parse_octet(octet_str) ==
    IF octet_str = <<>> THEN -1
    ELSE IF \E i \in 1..Len(octet_str) : octet_str[i] \notin DecDigits THEN -1
    ELSE IF Len(octet_str) > 3 THEN -1
    ELSE IF octet_str # <<"0">> /\ octet_str[1] = "0" THEN -1
    ELSE IF int(octet_str, 10) > 255 THEN -1
    ELSE int(octet_str, 10)

\* IPv6Address._parse_hextet: -1 stands for the ValueError.
parse_hextet(hextet_str) ==
    IF \E i \in 1..Len(hextet_str) : hextet_str[i] \notin HexDigits THEN -1
    ELSE IF Len(hextet_str) > 4 \/ hextet_str = <<>> THEN -1
    ELSE int(hextet_str, 16)

\* IPv4Address(ip_str)
IPv4Address(ip_str) ==
    LET octets == split(ip_str, ".")
    IN  IF ip_str = <<>> THEN ValueError
        ELSE IF Len(octets) # 4 THEN ValueError
        ELSE IF \E i \in 1..4 : parse_octet(octets[i]) = -1 THEN ValueError
        ELSE [version |-> 4, groups |-> [i \in 1..4 |-> parse_octet(octets[i])]]

\* IPv6Address(ip_str): _ip_int_from_string, with "::" standing for the
\* groups left out.
IPv6Address(ip_str) ==
    LET parts == split(ip_str, ":")
        n == Len(parts)
        skips == {i \in 2..(n - 1) : parts[i] = <<>>}
        skip_index == CHOOSE i \in skips : TRUE
        hi0 == skip_index - 1
        lo0 == n - skip_index
        parts_hi == IF parts[1] = <<>> THEN hi0 - 1 ELSE hi0
        parts_lo == IF parts[n] = <<>> THEN lo0 - 1 ELSE lo0
        parts_skipped == 8 - (parts_hi + parts_lo)
        all == IF skips = {}
               THEN parts
               ELSE SubSeq(parts, 1, parts_hi)
                    \o [i \in 1..parts_skipped |-> <<"0">>]
                    \o SubSeq(parts, n - parts_lo + 1, n)
    IN  IF ip_str = <<>> THEN ValueError
        ELSE IF n < 3 \/ n > 9 THEN ValueError
        ELSE IF Cardinality(skips) > 1 THEN ValueError
        ELSE IF skips = {} /\ (n # 8 \/ parts[1] = <<>> \/ parts[n] = <<>>) THEN ValueError
        ELSE IF skips # {} /\ parts[1] = <<>> /\ parts_hi # 0 THEN ValueError
        ELSE IF skips # {} /\ parts[n] = <<>> /\ parts_lo # 0 THEN ValueError
        ELSE IF skips # {} /\ parts_skipped < 1 THEN ValueError
        ELSE IF \E i \in 1..8 : parse_hextet(all[i]) = -1 THEN ValueError
        ELSE [version |-> 6, groups |-> [i \in 1..8 |-> parse_hextet(all[i])]]

\* ipaddress.ip_address(address): IPv4 first, then IPv6.
ip_address(address) ==
    IF IPv4Address(address) # ValueError THEN IPv4Address(address)
    ELSE IPv6Address(address)

\* _prefix_from_prefix_string: -1 stands for the NetmaskValueError.
prefix_from_prefix_string(version, prefixlen_str) ==
    IF prefixlen_str = <<>> THEN -1
    ELSE IF \E i \in 1..Len(prefixlen_str) : prefixlen_str[i] \notin DecDigits THEN -1
    ELSE IF int(prefixlen_str, 10) > max_prefixlen(version) THEN -1
    ELSE int(prefixlen_str, 10)

\* IPv4Network(address, strict) and IPv6Network(address, strict): the
\* address before "/" and the prefix after it, the whole address if there is
\* none.  With host bits set, strict raises and non-strict masks them off.
IPNetwork(version, address, strict) ==
    LET parts == split(address, "/")
        addr == IF version = 4 THEN IPv4Address(parts[1]) ELSE IPv6Address(parts[1])
        prefixlen == IF Len(parts) = 1 THEN max_prefixlen(version)
                     ELSE prefix_from_prefix_string(version, parts[2])
        masked == MaskGroups(version, addr.groups, prefixlen)
    IN  IF Len(parts) > 2 THEN ValueError
        ELSE IF addr = ValueError THEN ValueError
        ELSE IF prefixlen = -1 THEN ValueError
        ELSE IF strict /\ masked # addr.groups THEN ValueError
        ELSE [version |-> version, network_address |-> masked, prefixlen |-> prefixlen]

\* ipaddress.ip_network(address, strict): IPv4 first, then IPv6.
ip_network(address, strict) ==
    IF IPNetwork(4, address, strict) # ValueError THEN IPNetwork(4, address, strict)
    ELSE IPNetwork(6, address, strict)

\* Contains without the netmask: only the network address itself is in it.
Contains_exact(network, ip) ==
    /\ network.version = ip.version
    /\ ip.groups = network.network_address

\* _BaseNetwork.__contains__: ip in network
Contains(network, ip) ==
    /\ network.version = ip.version
    /\ MaskGroups(ip.version, ip.groups, network.prefixlen) = network.network_address

\* NetworkLt without the netmask: networks of one address compare equal.
NetworkLt_address_only(a, b) ==
    GroupsLt(a.network_address, b.network_address)

\* _BaseNetwork.__lt__ within one version: by network address, then netmask.
NetworkLt(a, b) ==
    IF a.network_address # b.network_address
    THEN GroupsLt(a.network_address, b.network_address)
    ELSE GroupsLt(netmask(a.version, a.prefixlen), netmask(b.version, b.prefixlen))

\* IPv6Address._compress_hextets: the longest run of two or more "0" groups
\* (the first of the longest) becomes "", doubled at either end.
compress_hextets(hextets) ==
    LET RunLen(i) == IF hextets[i] # <<"0">> THEN 0
                     ELSE (CHOOSE k \in 1..8 :
                              /\ \A j \in i..(i + k - 1) : hextets[j] = <<"0">>
                              /\ (i + k > 8 \/ hextets[i + k] # <<"0">>))
        best_len == CHOOSE m \in 0..8 :
                        /\ \E i \in 1..8 : RunLen(i) = m
                        /\ \A i \in 1..8 : RunLen(i) <= m
        best_start == CHOOSE i \in 1..8 :
                          RunLen(i) = best_len /\ \A j \in 1..(i - 1) : RunLen(j) < best_len
        best_end == best_start + best_len - 1
    IN  IF best_len <= 1 THEN hextets
        ELSE (IF best_start = 1 THEN <<(<<>>)>> ELSE <<>>)
             \o SubSeq(hextets, 1, best_start - 1)
             \o <<(<<>>)>>
             \o SubSeq(hextets, best_end + 1, 8)
             \o (IF best_end = 8 THEN <<(<<>>)>> ELSE <<>>)

\* str(address)
str_address(version, groups) ==
    IF version = 4
    THEN join([i \in 1..4 |-> format(groups[i], 10)], ".")
    ELSE join(compress_hextets([i \in 1..8 |-> format(groups[i], 16)]), ":")

\* str(network): "address/prefixlen"
str_network(network) ==
    str_address(network.version, network.network_address)
    \o <<"/">> \o format(network.prefixlen, 10)

(***************************************************************************)
(* Bounds and inputs                                                       *)
(***************************************************************************)

\* Lines read from one blocklist file.
MaxLines == 2

\* Files load_all_blocklists finds in the directory.
MaxFiles == 2

\* Lines of the file the two managers of SpecPerm load in two orders.
MaxPerm == 3

\* Lines of a fetched feed.
MaxFeed == 2

\* Entries of a list handed to a list writer.
MaxIps == 2

\* Lines of the file the two managers of SpecTwin load in two orders.
MaxTwin == 2

\* The lines a blocklist file is made of, as iterating the file yields them.
FileLines ==
    { <<"1", "0", ".", "0", ".", "0", ".", "0", "/", "8", "\n">>,
      <<" ", "1", "0", ".", "1", ".", "2", ".", "3", "/", "8", "\n">>,
      <<"1", "0", ".", "0", ".", "0", ".", "0", "/", "1", "6", "\n">>,
      <<"1", "0", ".", "1", ".", "2", ".", "3">>,
      <<":", ":", "1", "\n">>,
      <<"b", "a", "d", "-", "t", "o", "k", "e", "n", "\n">>,
      <<"#", " ", "c", "\n">>,
      <<";", " ", "c", "\n">>,
      <<"\n">> }

\* The lines of FileLines that hold an entry.
EntryLines == {raw \in FileLines : ip_network(strip(raw), FALSE) # ValueError}

\* The addresses asked about.
QueryStrs ==
    { <<"1", "0", ".", "1", ".", "2", ".", "3">>,
      <<"1", "0", ".", "0", ".", "0", ".", "5">>,
      <<"1", "1", ".", "0", ".", "0", ".", "0">>,
      <<":", ":", "1">>,
      <<"b", "a", "d", "-", "t", "o", "k", "e", "n">> }

\* The lines of a fetched feed (response.text.splitlines()).
FeedLines ==
    { <<"1", "0", ".", "0", ".", "0", ".", "0", "/", "8", " ", ";", " ", "S", "B", "L", "1">>,
      <<"9", ".", "0", ".", "0", ".", "1">>,
      <<";", " ", "c">>,
      <<"#", " ", "c">>,
      <<>> }

\* The entries of the lists handed to the list writers.
IpStrs ==
    { <<"1", "0", ".", "0", ".", "0", ".", "0", "/", "8">>,
      <<"9", ".", "0", ".", "0", ".", "1">>,
      <<"1", "0", ".", "1", ".", "2", ".", "3">> }

\* The format_type values export_to_format is called with: the five it
\* knows and one it does not.
FormatTypes == {"plain", "iptables", "nginx", "apache", "json", "xml"}

\* The format_type values export_to_format has a branch for, which are the
\* choices of --format.
KnownFormats == {"plain", "iptables", "nginx", "apache", "json"}

\* The sequences over S of length at most n.
BoundedSeq(S, n) == UNION {[1..k -> S] : k \in 0..n}

\* The orders in which iterating a set can yield its elements.
Orders(S) ==
    {order \in [1..Cardinality(S) -> S] :
        \A i, j \in 1..Cardinality(S) : i # j => order[i] # order[j]}

\* The rearrangements of a sequence.
Perms(seq) ==
    {[i \in 1..Len(seq) |-> seq[p[i]]] : p \in Orders(1..Len(seq))}

(***************************************************************************)
(* BlocklistManager: the functions                                         *)
(***************************************************************************)

\* sorted(seq) on networks of one version: a stable sort that compares with
\* __lt__ alone.
RECURSIVE sorted_networks(_)
sorted_networks(seq) ==
    LET RECURSIVE insert(_, _)
        insert(done, x) ==
            IF done = <<>> THEN <<x>>
            ELSE IF NetworkLt(x, done[Len(done)])
                 THEN Append(insert(SubSeq(done, 1, Len(done) - 1), x), done[Len(done)])
            ELSE Append(done, x)
    IN  IF seq = <<>> THEN <<>>
        ELSE insert(sorted_networks(SubSeq(seq, 1, Len(seq) - 1)), seq[Len(seq)])

\* sorted(seq) on str
RECURSIVE sorted_strs(_)
sorted_strs(seq) ==
    LET RECURSIVE insert(_, _)
        insert(done, x) ==
            IF done = <<>> THEN <<x>>
            ELSE IF StrLt(x, done[Len(done)])
                 THEN Append(insert(SubSeq(done, 1, Len(done) - 1), x), done[Len(done)])
            ELSE Append(done, x)
    IN  IF seq = <<>> THEN <<>>
        ELSE insert(sorted_strs(SubSeq(seq, 1, Len(seq) - 1)), seq[Len(seq)])

\* load_line as an insert that resolves subsumption: a network an entry covers
\* is dropped, the entries a network covers are replaced by it.
load_line_subsuming(m, line_num, raw) ==
    LET line == strip(raw)
        network == ip_network(line, FALSE)
        Covering(a, b) ==
            /\ a.version = b.version
            /\ a.prefixlen <= b.prefixlen
            /\ MaskGroups(b.version, b.network_address, a.prefixlen) = a.network_address
    IN  IF line = <<>> \/ startswith(line, "#") THEN m
        ELSE IF network = ValueError
             THEN [m EXCEPT !.warnings = Append(@, [line_num |-> line_num, line |-> line])]
        ELSE IF \E e \in m.blocked_ips : Covering(e, network)
             THEN [m EXCEPT !.count = @ + 1]
        ELSE [m EXCEPT !.blocked_ips =
                           {e \in @ : ~Covering(network, e)} \cup {network},
                       !.count = @ + 1]

\* load_line with the try around the whole loop: the first malformed line
\* ends the loading of the file.
load_line_stop_after_error(m, line_num, raw) ==
    LET line == strip(raw)
        network == ip_network(line, FALSE)
    IN  IF m.warnings # <<>> THEN m
        ELSE IF line = <<>> \/ startswith(line, "#") THEN m
        ELSE IF network # ValueError
             THEN [m EXCEPT !.blocked_ips = @ \cup {network}, !.count = @ + 1]
        ELSE [m EXCEPT !.warnings = Append(@, [line_num |-> line_num, line |-> line])]

\* load_line without the test for comments.
load_line_no_comment(m, line_num, raw) ==
    LET line == strip(raw)
        network == ip_network(line, FALSE)
    IN  IF line = <<>> THEN m
        ELSE IF network # ValueError
             THEN [m EXCEPT !.blocked_ips = @ \cup {network}, !.count = @ + 1]
        ELSE [m EXCEPT !.warnings = Append(@, [line_num |-> line_num, line |-> line])]

\* load_line parsing with strict=True, ip_network's default.
load_line_strict(m, line_num, raw) ==
    LET line == strip(raw)
        network == ip_network(line, TRUE)
    IN  IF line = <<>> \/ startswith(line, "#") THEN m
        ELSE IF network # ValueError
             THEN [m EXCEPT !.blocked_ips = @ \cup {network}, !.count = @ + 1]
        ELSE [m EXCEPT !.warnings = Append(@, [line_num |-> line_num, line |-> line])]

load_line_count_new(m, line_num, raw) ==
    LET line == strip(raw)
        network == ip_network(line, FALSE)
    IN  IF line = <<>> \/ startswith(line, "#") THEN m
        ELSE IF network # ValueError
             THEN [m EXCEPT !.blocked_ips = @ \cup {network},
                            !.count = IF network \in m.blocked_ips THEN @ ELSE @ + 1]
        ELSE [m EXCEPT !.warnings = Append(@, [line_num |-> line_num, line |-> line])]

\* The body of load_blocklist's loop, for the line numbered line_num: m holds
\* self.blocked_ips, count and the warnings printed.
load_line(m, line_num, raw) ==
    LET line == strip(raw)
        network == ip_network(line, FALSE)
    IN  IF line = <<>> \/ startswith(line, "#") THEN m
        ELSE IF network # ValueError
             THEN [m EXCEPT !.blocked_ips = @ \cup {network}, !.count = @ + 1]
        ELSE [m EXCEPT !.warnings = Append(@, [line_num |-> line_num, line |-> line])]

\* load_blocklist on a file that exists: the loop over enumerate(f, 1).
RECURSIVE load_blocklist(_, _)
load_blocklist(blocked, file) ==
    IF file = <<>> THEN [blocked_ips |-> blocked, count |-> 0, warnings |-> <<>>]
    ELSE load_line(load_blocklist(blocked, SubSeq(file, 1, Len(file) - 1)),
                   Len(file), file[Len(file)])

\* is_blocked without the test "ip in network": the first network iterated
\* is reported.
is_blocked_untested(order, address) ==
    LET ip == ip_address(address)
    IN  IF ip = ValueError
        THEN <<FALSE, <<"Invalid IP: '">> \o address
                      \o <<"' does not appear to be an IPv4 or IPv6 address">> >>
        ELSE IF order = <<>> THEN <<FALSE, <<>> >>
        ELSE <<TRUE, str_network(order[1])>>

\* is_blocked, iterating self.blocked_ips in the given order: the first
\* network that contains the address is the one reported.
is_blocked(order, address) ==
    LET ip == ip_address(address)
        hits == {i \in 1..Len(order) : Contains(order[i], ip)}
        first == CHOOSE i \in hits : \A j \in hits : i <= j
    IN  IF ip = ValueError
        THEN <<FALSE, <<"Invalid IP: '">> \o address
                      \o <<"' does not appear to be an IPv4 or IPv6 address">> >>
        ELSE IF hits = {} THEN <<FALSE, <<>> >>
        ELSE <<TRUE, str_network(order[first])>>

\* _sort_networks, iterating self.blocked_ips in the given order.
sort_networks(order) ==
    LET IsV4(n) == n.version = 4
        IsV6(n) == n.version = 6
    IN  sorted_networks(SelectSeq(order, IsV4)) \o sorted_networks(SelectSeq(order, IsV6))

\* What export_to_format writes to the file it opened: one str per write.
export_written(nets, format_type, total_count) ==
    IF format_type = "plain"
    THEN [i \in 1..Len(nets) |-> str_network(nets[i]) \o <<"\n">>]
    ELSE IF format_type = "iptables"
    THEN <<(<<"#!/bin/bash\n">>), (<<"# Generated iptables rules\n\n">>)>>
         \o [i \in 1..Len(nets) |->
                <<"iptables -A INPUT -s ">> \o str_network(nets[i]) \o <<" -j DROP\n">>]
    ELSE IF format_type = "nginx"
    THEN <<(<<"# Generated nginx geo block\n">>), (<<"geo $blocked_ip {\n">>),
           (<<"    default 0;\n">>)>>
         \o [i \in 1..Len(nets) |-> <<"    ">> \o str_network(nets[i]) \o <<" 1;\n">>]
         \o <<(<<"}\n">>)>>
    ELSE IF format_type = "apache"
    THEN <<(<<"# Generated Apache blocklist\n">>), (<<"<RequireAll>\n">>),
           (<<"    Require all granted\n">>)>>
         \o [i \in 1..Len(nets) |-> <<"    Require not ip ">> \o str_network(nets[i]) \o <<"\n">>]
         \o <<(<<"</RequireAll>\n">>)>>
    ELSE IF format_type = "json"
    THEN << [blocked_ips |-> [i \in 1..Len(nets) |-> str_network(nets[i])],
             total_count |-> total_count] >>
    ELSE <<>>

\* export_to_format: the sorted networks, the file written, the line printed
\* and the exception raised ("None": the call returns).
export_to_format(order, format_type) ==
    [op |-> "export_to_format",
     format_type |-> format_type,
     sorted_networks |-> sort_networks(order),
     written |-> export_written(sort_networks(order), format_type, Len(order)),
     printed |-> <<"Exported", Len(order), format_type>>,
     exc |-> "None"]

(***************************************************************************)
(* The list builders: the functions                                        *)
(***************************************************************************)

\* fetch_spamhaus_drop on a response whose text has the given lines: the
\* part of each line before ";", lines starting with ";" left out.
RECURSIVE fetch_spamhaus_drop(_)
fetch_spamhaus_drop(text) ==
    IF text = <<>> THEN <<>>
    ELSE LET ips == fetch_spamhaus_drop(SubSeq(text, 1, Len(text) - 1))
             line == strip(text[Len(text)])
             cidr == strip(split(line, ";")[1])
         IN  IF line = <<>> \/ startswith(line, ";") THEN ips
             ELSE IF cidr # <<>> THEN Append(ips, cidr)
             ELSE ips

\* set(ips)
SetOf(ips) == {ips[i] : i \in 1..Len(ips)}

\* write_blocklist: sorted(set(ips)), iterating the set in the given order;
\* the file holds the header, with the number of entries, and the entries.
write_blocklist(order) ==
    LET unique_ips == sorted_strs(order)
    IN  [op |-> "write_blocklist",
         value |-> unique_ips,
         written |-> [total |-> Len(unique_ips),
                      lines |-> [i \in 1..Len(unique_ips) |-> unique_ips[i] \o <<"\n">>]]]

\* create_master_list: sorted(set(ipsum_ips + alienvault_ips)), iterating the
\* set in the given order, written under a header.
create_master_list(order) ==
    LET sorted_ips == sorted_strs(order)
    IN  [op |-> "create_master_list",
         value |-> sorted_ips,
         written |-> [total |-> Len(sorted_ips),
                      lines |-> [i \in 1..Len(sorted_ips) |-> sorted_ips[i] \o <<"\n">>]]]

(***************************************************************************)
(* State                                                                   *)
(***************************************************************************)

VARIABLES
    program,      \* the script that runs
    pc,           \* "main", or the function whose loop is running
    ret_to,       \* the caller of load_blocklist
    blocked_ips,  \* self.blocked_ips
    blocked0,     \* self.blocked_ips as it was when the open file was opened
    f,            \* the lines read so far from the open file
    count,        \* load_blocklist's count
    warnings,     \* the warnings load_blocklist has printed for the open file
    glob_left,    \* the files load_all_blocklists has yet to load
    total,        \* load_all_blocklists's total
    loaded,       \* the counts load_all_blocklists has printed, one per file
    ret,          \* the last call that returned: its arguments and results
    twin          \* SpecPerm: two managers and the file each loads

vars ==
    <<program, pc, ret_to, blocked_ips, blocked0, f, count, warnings, glob_left,
      total, loaded, ret, twin>>

Programs == {"blocklist_manager", "buildCategorizedLists", "buildIPList"}

\* BlocklistManager.__init__, and no call made yet.
InitManager ==
    /\ pc = "main"
    /\ ret_to = "main"
    /\ blocked_ips = {}
    /\ blocked0 = {}
    /\ f = <<>>
    /\ count = 0
    /\ warnings = <<>>
    /\ glob_left = 0
    /\ total = 0
    /\ loaded = <<>>
    /\ ret = [op |-> "none"]

Init ==
    /\ program \in Programs
    /\ InitManager
    /\ twin = <<>>

locals == <<blocked0, f, count, warnings>>

\* load_blocklist up to its loop: the file is opened, nothing is read yet.
OpenFile(caller) ==
    /\ pc' = "load_blocklist"
    /\ ret_to' = caller
    /\ blocked0' = blocked_ips
    /\ f' = <<>>
    /\ count' = 0
    /\ warnings' = <<>>
    /\ ret' = [op |-> "none"]

\* main calls load_blocklist(filename): a file that is missing yields 0.
CallLoadBlocklist ==
    /\ program = "blocklist_manager"
    /\ pc = "main"
    /\ \E exists \in BOOLEAN :
        IF exists
        THEN OpenFile("main") /\ UNCHANGED <<program, blocked_ips, glob_left, total, loaded, twin>>
        ELSE /\ ret' = [op |-> "load_blocklist", value |-> 0,
                        printed |-> "Error: Blocklist file not found"]
             /\ UNCHANGED <<program, pc, ret_to, blocked_ips, locals, glob_left, total, loaded, twin>>

\* One turn of load_blocklist's loop: the next line of the file.
ReadLine ==
    /\ program = "blocklist_manager"
    /\ pc = "load_blocklist"
    /\ Len(f) < MaxLines
    /\ \E raw \in FileLines :
        LET m == load_line([blocked_ips |-> blocked_ips, count |-> count,
                            warnings |-> warnings], Len(f) + 1, raw)
        IN  /\ f' = Append(f, raw)
            /\ blocked_ips' = m.blocked_ips
            /\ count' = m.count
            /\ warnings' = m.warnings
    /\ UNCHANGED <<program, pc, ret_to, blocked0, glob_left, total, loaded, ret, twin>>

\* The file is at its end: load_blocklist returns count, to main or to
\* load_all_blocklists, which prints it and adds it to total.
ReturnCount ==
    /\ program = "blocklist_manager"
    /\ pc = "load_blocklist"
    /\ pc' = ret_to
    /\ IF ret_to = "main"
       THEN /\ ret' = [op |-> "load_blocklist", value |-> count]
            /\ UNCHANGED <<glob_left, total, loaded>>
       ELSE /\ ret' = [op |-> "none"]
            /\ loaded' = Append(loaded, count)
            /\ total' = total + count
            /\ glob_left' = glob_left - 1
    /\ blocked0' = {}
    /\ f' = <<>>
    /\ count' = 0
    /\ warnings' = <<>>
    /\ UNCHANGED <<program, ret_to, blocked_ips, twin>>

\* main calls load_all_blocklists: the directory holds some "*.txt" files.
CallLoadAll ==
    /\ program = "blocklist_manager"
    /\ pc = "main"
    /\ pc' = "load_all_blocklists"
    /\ total' = 0
    /\ loaded' = <<>>
    /\ \E n \in 0..MaxFiles : glob_left' = n
    /\ ret' = [op |-> "none"]
    /\ UNCHANGED <<program, ret_to, blocked_ips, locals, twin>>

\* load_all_blocklists loads the next file of the directory.
LoadNextFile ==
    /\ program = "blocklist_manager"
    /\ pc = "load_all_blocklists"
    /\ glob_left > 0
    /\ OpenFile("load_all_blocklists")
    /\ UNCHANGED <<program, blocked_ips, glob_left, total, loaded, twin>>

\* load_all_blocklists returns total.
ReturnTotal ==
    /\ program = "blocklist_manager"
    /\ pc = "load_all_blocklists"
    /\ glob_left = 0
    /\ pc' = "main"
    /\ ret' = [op |-> "load_all_blocklists", value |-> total, printed |-> loaded]
    /\ total' = 0
    /\ loaded' = <<>>
    /\ UNCHANGED <<program, ret_to, blocked_ips, locals, glob_left, twin>>

\* A call of is_blocked(ip_address).
IsBlocked ==
    /\ program = "blocklist_manager"
    /\ pc = "main"
    /\ \E address \in QueryStrs, order \in Orders(blocked_ips) :
        ret' = [op |-> "is_blocked", ip_address |-> address,
                value |-> is_blocked(order, address)]
    /\ UNCHANGED <<program, pc, ret_to, blocked_ips, locals, glob_left, total, loaded, twin>>

\* A call of export_to_format(output_file, format_type).
ExportToFormat ==
    /\ program = "blocklist_manager"
    /\ pc = "main"
    /\ \E format_type \in FormatTypes, order \in Orders(blocked_ips) :
        ret' = export_to_format(order, format_type)
    /\ UNCHANGED <<program, pc, ret_to, blocked_ips, locals, glob_left, total, loaded, twin>>

\* buildCategorizedLists: a call of fetch_spamhaus_drop; a request that
\* fails yields the empty list.
FetchSpamhausDrop ==
    /\ program = "buildCategorizedLists"
    /\ \E text \in BoundedSeq(FeedLines, MaxFeed), failed \in BOOLEAN :
        ret' = [op |-> "fetch_spamhaus_drop", text |-> text, failed |-> failed,
                value |-> IF failed THEN <<>> ELSE fetch_spamhaus_drop(text)]
    /\ UNCHANGED <<program, pc, ret_to, blocked_ips, locals, glob_left, total, loaded, twin>>

\* buildCategorizedLists: a call of write_blocklist(filename, ips, ...).
WriteBlocklist ==
    /\ program = "buildCategorizedLists"
    /\ \E ips \in BoundedSeq(IpStrs, MaxIps) :
        \E order \in Orders(SetOf(ips)) : ret' = write_blocklist(order)
    /\ UNCHANGED <<program, pc, ret_to, blocked_ips, locals, glob_left, total, loaded, twin>>

\* buildIPList: a call of create_master_list(ipsum_ips, alienvault_ips).
CreateMasterList ==
    /\ program = "buildIPList"
    /\ \E ipsum_ips \in BoundedSeq(IpStrs, MaxIps), alienvault_ips \in BoundedSeq(IpStrs, MaxIps) :
        \E order \in Orders(SetOf(ipsum_ips \o alienvault_ips)) :
            ret' = create_master_list(order)
    /\ UNCHANGED <<program, pc, ret_to, blocked_ips, locals, glob_left, total, loaded, twin>>

Next ==
    \/ CallLoadBlocklist
    \/ ReadLine
    \/ ReturnCount
    \/ CallLoadAll
    \/ LoadNextFile
    \/ ReturnTotal
    \/ IsBlocked
    \/ ExportToFormat
    \/ FetchSpamhausDrop
    \/ WriteBlocklist
    \/ CreateMasterList

Spec == Init /\ [][Next]_vars

(***************************************************************************)
(* SpecPerm: two managers, each loading into its empty set a file that     *)
(* holds the same entry lines, in two orders, and then sorting its set.    *)
(***************************************************************************)

InitPerm ==
    /\ program = "blocklist_manager"
    /\ InitManager
    /\ \E file \in BoundedSeq(EntryLines, MaxPerm) :
        \E perm \in Perms(file) :
            twin = [m \in 1..2 |->
                       [file |-> IF m = 1 THEN file ELSE perm,
                        pc |-> "new",
                        blocked_ips |-> {},
                        sorted_networks |-> <<>>,
                        order |-> <<>>,
                        ip_address |-> <<>>,
                        value |-> <<FALSE, <<>> >>]]

\* Manager m calls load_blocklist on its file.
TwinLoad(m) ==
    /\ twin[m].pc = "new"
    /\ twin' = [twin EXCEPT ![m].pc = "loaded",
                            ![m].blocked_ips = load_blocklist({}, twin[m].file).blocked_ips]
    /\ UNCHANGED <<program, pc, ret_to, blocked_ips, locals, glob_left, total, loaded, ret>>

\* Manager m calls _sort_networks.
TwinSort(m) ==
    /\ twin[m].pc = "loaded"
    /\ \E order \in Orders(twin[m].blocked_ips) :
        twin' = [twin EXCEPT ![m].pc = "sorted",
                             ![m].sorted_networks = sort_networks(order)]
    /\ UNCHANGED <<program, pc, ret_to, blocked_ips, locals, glob_left, total, loaded, ret>>

NextPerm ==
    \/ \E m \in 1..2 : TwinLoad(m)
    \/ \E m \in 1..2 : TwinSort(m)

SpecPerm == InitPerm /\ [][NextPerm]_vars

(***************************************************************************)
(* SpecTwin: two managers, each loading into its empty set a file that     *)
(* holds the same entry lines, in two orders, and then asked whether an    *)
(* address is blocked.                                                     *)
(***************************************************************************)

InitTwin ==
    /\ program = "blocklist_manager"
    /\ InitManager
    /\ \E file \in BoundedSeq(EntryLines, MaxTwin) :
        \E perm \in Perms(file) :
            twin = [m \in 1..2 |->
                       [file |-> IF m = 1 THEN file ELSE perm,
                        pc |-> "new",
                        blocked_ips |-> {},
                        sorted_networks |-> <<>>,
                        order |-> <<>>,
                        ip_address |-> <<>>,
                        value |-> <<FALSE, <<>> >>]]

\* Manager m calls is_blocked(ip_address). A set iterates in an order that
\* the insertions that built it decide: two managers that loaded the same
\* lines in the same order iterate alike.
TwinIsBlocked(m) ==
    /\ twin[m].pc = "loaded"
    /\ \E address \in QueryStrs, order \in Orders(twin[m].blocked_ips) :
        /\ \A o \in 1..2 :
            (twin[o].pc = "queried" /\ twin[o].file = twin[m].file)
                => order = twin[o].order
        /\ twin' = [twin EXCEPT ![m].pc = "queried",
                                ![m].order = order,
                                ![m].ip_address = address,
                                ![m].value = is_blocked(order, address)]
    /\ UNCHANGED <<program, pc, ret_to, blocked_ips, locals, glob_left, total, loaded, ret>>

NextTwin ==
    \/ \E m \in 1..2 : TwinLoad(m)
    \/ \E m \in 1..2 : TwinIsBlocked(m)

SpecTwin == InitTwin /\ [][NextTwin]_vars

(***************************************************************************)
(* The vocabulary of the properties                                        *)
(***************************************************************************)

\* a <= b on the integers the groups spell
GroupsLe(a, b) == a = b \/ GroupsLt(a, b)

\* The last address of a network: its network address with all host bits set.
LastAddress(e) ==
    [i \in 1..Len(e.network_address) |->
        e.network_address[i]
        + Pow2(GroupBits(e.version) - KeptBits(e.version, e.prefixlen, i)) - 1]

\* Address x lies numerically inside the range of network e.
InRange(e, x) ==
    /\ e.version = x.version
    /\ GroupsLe(e.network_address, x.groups)
    /\ GroupsLe(x.groups, LastAddress(e))

\* The range of a is a strict subset of the range of b.
StrictSubset(a, b) ==
    /\ a.version = b.version
    /\ a # b
    /\ GroupsLe(b.network_address, a.network_address)
    /\ GroupsLe(LastAddress(a), LastAddress(b))

\* a covers b: same family, a's prefix no longer than b's, and b's base
\* masked to a's prefix is a's base.
Covers(a, b) ==
    /\ a.version = b.version
    /\ a.prefixlen <= b.prefixlen
    /\ MaskGroups(b.version, b.network_address, a.prefixlen) = a.network_address

\* What each line of FileLines spells: the line stripped, the network it is
\* read as (ValueError if none), and, cut at "/", the address and the prefix
\* length as written, before any masking (the prefix length of a bare address
\* is that of its family; -1 if it is none).
Spelled ==
    [raw \in FileLines |->
        LET line == strip(raw)
            parts == split(line, "/")
            address == ip_address(parts[1])
        IN  [line |-> line,
             network |-> ip_network(line, FALSE),
             parts |-> Len(parts),
             address |-> address,
             prefixlen |->
                 IF address = ValueError THEN -1
                 ELSE IF Len(parts) = 1 THEN max_prefixlen(address.version)
                 ELSE prefix_from_prefix_string(address.version, parts[2])]]

\* Line i of the open file, stripped.
Line(i) == Spelled[f[i]].line

\* Line i of the open file is skipped: empty, or a "#" comment.
Skipped(i) == Line(i) = <<>> \/ Line(i)[1] = "#"

\* The network line i of the open file spells, ValueError if it spells none.
NetworkOfLine(i) == Spelled[f[i]].network

\* The lines of the open file that hold an entry, and those that are malformed.
ParsedLines == {i \in 1..Len(f) : ~Skipped(i) /\ NetworkOfLine(i) # ValueError}

MalformedLines == {i \in 1..Len(f) : ~Skipped(i) /\ NetworkOfLine(i) = ValueError}

\* The warning printed for line i, if one was.
WarnedLines == {warnings[k].line_num : k \in 1..Len(warnings)}

(***************************************************************************)
(* C1                                                                      *)
(***************************************************************************)

\* C1 as claimed: the range set never holds two distinct entries of one
\* family of which one's range is a strict subset of the other's.
C1_NoStrictSubset ==
    \A a, b \in blocked_ips : ~StrictSubset(a, b)

\* C1 as amended: while a file is loaded the set is exactly the set it was
\* when the file was opened together with the network of every line parsed
\* since; an entry an entry covers is kept beside it.
C1_InsertIsUnion ==
    pc = "load_blocklist" =>
        blocked_ips = blocked0 \cup {NetworkOfLine(i) : i \in ParsedLines}

\* C1's case: two lines have been parsed, one a strict subset of the other.
C1_Witness ==
    /\ pc = "load_blocklist"
    /\ \E i, j \in ParsedLines :
        /\ StrictSubset(NetworkOfLine(i), NetworkOfLine(j))
        /\ {NetworkOfLine(i), NetworkOfLine(j)} \subseteq blocked_ips

(***************************************************************************)
(* C2                                                                      *)
(***************************************************************************)

\* The address a call of is_blocked asked about.
Asked == ip_address(ret.ip_address)

\* The entries of the set whose str is the reason is_blocked gave.
Reported == {e \in blocked_ips : str_network(e) = ret.value[2]}

\* C2 as claimed: a match reported for x contains x and has the greatest
\* prefix length among the entries that contain x.
C2_LongestPrefixMatch ==
    (ret.op = "is_blocked" /\ ret.value[1]) =>
        \E e \in Reported :
            /\ InRange(e, Asked)
            /\ \A other \in blocked_ips : InRange(other, Asked) => other.prefixlen <= e.prefixlen

\* C2 as amended: a match reported for x is an entry of the set that contains
\* x; it need not be the one with the greatest prefix length.
C2_MatchContains ==
    (ret.op = "is_blocked" /\ ret.value[1]) =>
        \E e \in Reported : InRange(e, Asked)

\* C2's case: several entries contain x and the one reported is not the most
\* specific of them.
C2_Witness ==
    /\ ret.op = "is_blocked"
    /\ ret.value[1]
    /\ \E e \in Reported, other \in blocked_ips :
        InRange(e, Asked) /\ InRange(other, Asked) /\ other.prefixlen > e.prefixlen

(***************************************************************************)
(* C3                                                                      *)
(***************************************************************************)

\* The networks of the two lines of the file manager 1 loads.
TwinA == ip_network(strip(twin[1].file[1]), FALSE)

TwinB == ip_network(strip(twin[1].file[2]), FALSE)

\* Both managers have loaded a file of two entries a, b where a covers b:
\* manager 1 inserted a then b, manager 2 the same lines in its own order.
TwinCovering ==
    /\ Len(twin[1].file) = 2
    /\ twin[1].pc # "new"
    /\ twin[2].pc # "new"
    /\ Covers(TwinA, TwinB)

\* C3 as claimed: in both orders the set holds a alone.
C3_OnlyCoveringEntry ==
    TwinCovering => (twin[1].blocked_ips = {TwinA} /\ twin[2].blocked_ips = {TwinA})

\* C3 as amended: in both orders the set holds a and b, which is a alone only
\* when b equals a.
C3_BothOrdersKeepBoth ==
    TwinCovering =>
        (twin[1].blocked_ips = {TwinA, TwinB} /\ twin[2].blocked_ips = {TwinA, TwinB})

\* C3's case: a covers another entry b, inserted as a, b and as b, a.
C3_Witness ==
    /\ TwinCovering
    /\ TwinA # TwinB
    /\ twin[2].file = <<twin[1].file[2], twin[1].file[1]>>

(***************************************************************************)
(* C4                                                                      *)
(***************************************************************************)

\* C4: for a valid address x, is_blocked reports a match exactly when some
\* entry of the set contains x, and (False, "") exactly when none does.
C4_MatchIffContained ==
    (ret.op = "is_blocked" /\ Asked # ValueError) =>
        /\ ret.value[1] <=> (\E e \in blocked_ips : InRange(e, Asked))
        /\ (ret.value = <<FALSE, <<>> >>) <=> ~(\E e \in blocked_ips : InRange(e, Asked))

\* C4's case: an address one entry of the set contains and another does not,
\* reported as a match.
C4_Witness ==
    /\ ret.op = "is_blocked"
    /\ Asked # ValueError
    /\ ret.value[1]
    /\ \E e, other \in blocked_ips : InRange(e, Asked) /\ ~InRange(other, Asked)

(***************************************************************************)
(* C5                                                                      *)
(***************************************************************************)

\* C5: two managers that inserted the same entries in two orders get the
\* same sequence from _sort_networks.
C5_SameSequence ==
    (twin[1].pc = "sorted" /\ twin[2].pc = "sorted") =>
        twin[1].sorted_networks = twin[2].sorted_networks

\* C5's case: both managers have sorted, their files differ in order and the
\* sequence has entries to order.
C5_Witness ==
    /\ twin[1].pc = "sorted"
    /\ twin[2].pc = "sorted"
    /\ twin[1].file # twin[2].file
    /\ Len(twin[1].sorted_networks) >= 2

(***************************************************************************)
(* C6                                                                      *)
(***************************************************************************)

\* Entry a comes before entry b in the canonical order: v4 before v6, then
\* the smaller base address, then the shorter prefix.
Before(a, b) ==
    \/ a.version < b.version
    \/ /\ a.version = b.version
       /\ \/ GroupsLt(a.network_address, b.network_address)
          \/ a.network_address = b.network_address /\ a.prefixlen < b.prefixlen

\* The sequence _sort_networks returned lists the set in canonical order.
ExportCanonical ==
    /\ {ret.sorted_networks[i] : i \in 1..Len(ret.sorted_networks)} = blocked_ips
    /\ \A i, j \in 1..Len(ret.sorted_networks) :
        i < j => Before(ret.sorted_networks[i], ret.sorted_networks[j])

ListWriters == {"write_blocklist", "create_master_list"}

\* C6 as claimed: the export path and the list writers all put the entries
\* in canonical order.
C6_CanonicalEverywhere ==
    /\ ret.op = "export_to_format" => ExportCanonical
    /\ ret.op \in ListWriters =>
        \A i, j \in 1..Len(ret.value) :
            i < j => Before(ip_network(ret.value[i], FALSE), ip_network(ret.value[j], FALSE))

\* C6 as amended: the export path puts the entries in canonical order; the
\* list writers put their entries, which are str, in ascending str order.
C6_ExportCanonicalWritersStrOrder ==
    /\ ret.op = "export_to_format" => ExportCanonical
    /\ ret.op \in ListWriters =>
        \A i, j \in 1..Len(ret.value) : i < j => StrLt(ret.value[i], ret.value[j])

\* C6's case: a list writer wrote two entries of which the second has the
\* smaller address.
C6_Witness ==
    /\ ret.op \in ListWriters
    /\ \E i, j \in 1..Len(ret.value) :
        /\ i < j
        /\ Before(ip_network(ret.value[j], FALSE), ip_network(ret.value[i], FALSE))

(***************************************************************************)
(* C7                                                                      *)
(***************************************************************************)

IsComment(line) == line # <<>> /\ line[1] \in {"#", ";"}

\* C8 as claimed: no line that starts with "#" or ";" gets a warning from
\* load_blocklist or becomes an entry of fetch_spamhaus_drop.
C8_CommentNeverError ==
    /\ pc = "load_blocklist" =>
        \A i \in 1..Len(f) : IsComment(Line(i)) => i \notin WarnedLines
    /\ ret.op = "fetch_spamhaus_drop" =>
        \A k \in 1..Len(ret.value) : ~IsComment(ret.value[k])

\* C8 as amended: load_blocklist skips a line that starts with "#": no
\* warning, no count; every malformed data line, one that starts with ";"
\* included, gets a warning.  fetch_spamhaus_drop skips the lines that start
\* with ";".
C8_OwnCommentSkipped ==
    /\ pc = "load_blocklist" =>
        /\ \A i \in 1..Len(f) : startswith(Line(i), "#") => i \notin WarnedLines
        /\ WarnedLines = MalformedLines
        /\ Len(warnings) = Cardinality(MalformedLines)
        /\ count = Cardinality(ParsedLines)
    /\ (ret.op = "fetch_spamhaus_drop" /\ ~ret.failed) =>
        /\ \A k \in 1..Len(ret.value) : ~startswith(ret.value[k], ";")
        /\ Len(ret.value) =
               Cardinality({i \in 1..Len(ret.text) :
                               /\ ~startswith(strip(ret.text[i]), ";")
                               /\ strip(split(strip(ret.text[i]), ";")[1]) # <<>>})

\* C8's case: load_blocklist has read a "#" line, which it skipped, and a ";"
\* line, which it reported.
C8_Witness ==
    /\ pc = "load_blocklist"
    /\ \E i, j \in 1..Len(f) :
        /\ startswith(Line(i), "#")
        /\ i \notin WarnedLines
        /\ startswith(Line(j), ";")
        /\ j \in WarnedLines

(***************************************************************************)
(* C9                                                                      *)
(***************************************************************************)

\* C9: export_to_format with a format_type it has no branch for raises; it
\* does not return having written an empty file and printed its success.
C9_UnknownFormatFailsFast ==
    (ret.op = "export_to_format" /\ ret.format_type \notin KnownFormats) =>
        /\ ret.exc # "None"
        /\ ~(ret.written = <<>> /\ ret.printed[1] = "Exported")

(***************************************************************************)
(* C10                                                                     *)
(***************************************************************************)

\* All bits of the base address beyond the prefix length are zero.
IsCanonicalEntry(e) ==
    \A i \in 1..Len(e.network_address) :
        e.network_address[i]
            % Pow2(GroupBits(e.version) - KeptBits(e.version, e.prefixlen, i)) = 0

\* The address and the prefix length line i of the open file spells, before
\* any masking.
TokenAddress(i) == Spelled[f[i]].address

TokenPrefix(i) == Spelled[f[i]].prefixlen

\* Line i is a data line that is a syntactically valid address or CIDR.
ValidCidr(i) ==
    /\ ~Skipped(i)
    /\ Spelled[f[i]].parts <= 2
    /\ TokenAddress(i) # ValueError
    /\ TokenPrefix(i) # -1

\* C10: every entry of the set is canonical; a valid CIDR line, host bits set
\* or not, gets no warning and is stored as the canonical entry of its prefix
\* length that contains its address; lines that differ only in host bits are
\* stored as one entry.
C10_StoredCanonical ==
    /\ \A e \in blocked_ips : IsCanonicalEntry(e)
    /\ pc = "load_blocklist" =>
        /\ \A i \in 1..Len(f) :
            ValidCidr(i) =>
                /\ i \notin WarnedLines
                /\ \E e \in blocked_ips :
                    /\ e.prefixlen = TokenPrefix(i)
                    /\ InRange(e, TokenAddress(i))
        /\ \A i, j \in 1..Len(f) :
            (/\ ValidCidr(i)
             /\ ValidCidr(j)
             /\ TokenPrefix(i) = TokenPrefix(j)
             /\ InRange(NetworkOfLine(i), TokenAddress(j)))
                => NetworkOfLine(i) = NetworkOfLine(j)

\* C10's case: two lines that differ only in host bits have been read, one
\* with host bits set, and the set holds their one entry.
C10_Witness ==
    /\ pc = "load_blocklist"
    /\ \E i, j \in 1..Len(f) :
        /\ ValidCidr(i)
        /\ ValidCidr(j)
        /\ TokenAddress(i) # TokenAddress(j)
        /\ TokenAddress(i).groups # NetworkOfLine(i).network_address
        /\ NetworkOfLine(i) = NetworkOfLine(j)
        /\ NetworkOfLine(i) \in blocked_ips

(***************************************************************************)
(* C11                                                                     *)
(***************************************************************************)

\* The lines of the open file whose token parsed: an address of either
\* family, alone or with a prefix length its family allows.
ParsedTokens == {i \in 1..Len(f) : ValidCidr(i)}

RECURSIVE SumOf(_)
SumOf(counts) == IF counts = <<>> THEN 0 ELSE counts[1] + SumOf(Tail(counts))

\* C11: the count load_blocklist returns for a file, to main or to
\* load_all_blocklists (which prints it), is the number of the file's lines
\* whose token parsed, duplicates of entries already in the set included and
\* empty, comment and malformed lines excluded; and the total
\* load_all_blocklists returns is the sum of the counts it printed, one for
\* each file.
C11_CountIsParsedTokens ==
    [][/\ (pc = "load_blocklist" /\ pc' = "main")
            => ret'.value = Cardinality(ParsedTokens)
       /\ (pc = "load_blocklist" /\ pc' = "load_all_blocklists")
            => /\ loaded' = Append(loaded, Cardinality(ParsedTokens))
               /\ total' = SumOf(loaded')
       /\ (pc = "load_all_blocklists" /\ pc' = "main")
            => /\ ret'.printed = loaded
               /\ ret'.value = SumOf(loaded)]_vars

\* load_all_blocklists has returned 2 after two files that contributed one
\* entry each, and the entry of the second was already in the set.
C11_Witness ==
    /\ ret.op = "load_all_blocklists"
    /\ ret.printed = <<1, 1>>
    /\ ret.value = 2
    /\ Cardinality(blocked_ips) = 1

(***************************************************************************)
(* C12                                                                     *)
(***************************************************************************)

\* The two managers hold the same set of entries and each has been asked
\* for the same address.
TwinBothAsked ==
    /\ twin[1].pc = "queried"
    /\ twin[2].pc = "queried"
    /\ twin[1].ip_address = twin[2].ip_address
    /\ twin[1].blocked_ips = twin[2].blocked_ips

\* The address the two managers were asked for.
TwinAsked == ip_address(twin[1].ip_address)

\* The entries of the common set that contain the address asked for.
TwinMatching ==
    IF TwinAsked = ValueError THEN {}
    ELSE {e \in twin[1].blocked_ips : InRange(e, TwinAsked)}

\* C12 as stated: two managers built from the same set of entries, in
\* whatever insertion and iteration order, answer every address query with
\* the identical result, the matched entry included.
C12_IdenticalResult ==
    TwinBothAsked => twin[1].value = twin[2].value

\* C12 as amended: the two managers give the identical verdict; a matched
\* entry is, in each, an entry of the set that contains the address; and the
\* two results are identical, matched entry included, whenever at most one
\* entry of the set contains the address.
C12_SameVerdictSoleMatchIdentical ==
    TwinBothAsked =>
        /\ twin[1].value[1] = twin[2].value[1]
        /\ \A m \in 1..2 :
            twin[m].value[1] =>
                \E e \in TwinMatching : twin[m].value[2] = str_network(e)
        /\ Cardinality(TwinMatching) <= 1 => twin[1].value = twin[2].value

\* Two managers that loaded the same two entries in opposite orders were
\* asked for an address that one of the two entries contains, and both
\* report that entry.
C12_Witness ==
    /\ TwinBothAsked
    /\ twin[1].file # twin[2].file
    /\ Cardinality(twin[1].blocked_ips) = 2
    /\ Cardinality(TwinMatching) = 1
    /\ twin[1].value[1]
    /\ twin[1].value = twin[2].value

====
